---- MODULE Spec2Model ----
(***************************************************************************)
(* A model of src/src/Modal.svelte: the modal host's controller state, its *)
(* control API (openModal, changeModalContent, closeModal, isLoading), the *)
(* scroll lock, the keyboard and pointer handlers, the reactive show block *)
(* and the renderer's transition boundaries.                               *)
(***************************************************************************)
EXTENDS Integers, Sequences, FiniteSets, TLC

\* ------------------------------------------------------------------ bounds

\* Largest vertical scroll offset the page starts with.
MaxScroll == 1
\* Largest number of tabbable descendants of the dialog window.
MaxTabbable == 3
\* The count of snapshot captures saturates here.
MaxCaptures == 2

\* ------------------------------------------------------------- value sets

\* Renderable contents a caller may pass to openModal / changeModalContent / show.
Contents == {"ContentX", "ContentY"}

\* Inline style values document.body may carry before the host touches it.
BodyPositions == {"", "relative"}
BodyTops == {"", "10px"}
BodyOverflows == {"", "scroll"}
BodyWidths == {"", "80%"}
ScrollOffsets == 0..MaxScroll

\* The configuration keys the handlers read.
ConfigKeys == {"closeOnEsc", "closeOnOuterClick", "disableFocusTrap"}

\* Caller-supplied overrides: any subset of the keys, each with a value.
OptionSets == UNION {[D -> BOOLEAN] : D \in SUBSET ConfigKeys}

\* The callback argument of openModal: no hooks, or all four hooks.
NoCallbacks == [onOpen |-> "none", onClose |-> "none", onOpened |-> "none", onClosed |-> "none"]
CallbackSets ==
  {NoCallbacks,
   [onOpen |-> "cb.onOpen", onClose |-> "cb.onClose",
    onOpened |-> "cb.onOpened", onClosed |-> "cb.onClosed"]}

\* The callback argument of closeModal: any of onClose / onClosed may be given.
CloseCallbackSets ==
  [onClose : {"none", "ovr.onClose"}, onClosed : {"none", "ovr.onClosed"}]

\* Elements a pointer event on the background's subtree may target.
PointerTargets == {"background", "wrap", "window", "content"}

Keys == {"Escape", "Tab", "a"}

\* ------------------------------------------------------------------ state

VARIABLES
  Component,          \* the bound content, or "null"
  state,              \* the merged configuration
  loading,            \* the loading flag
  scrollY,            \* saved scroll offset: Num(y), NotANumber until first saved
  prevBodyPosition,   \* saved body.style.position
  prevBodyOverflow,   \* saved body.style.overflow
  prevBodyWidth,      \* saved body.style.width
  outerClickTarget,   \* element remembered by handleOuterMousedown
  onOpen, onClose, onOpened, onClosed,   \* the four transition listeners
  isMounted,          \* set by onMount
  show,               \* the bound show prop
  body,               \* document.body.style: position, top, overflow, width
  windowScrollY,      \* window.scrollY
  dom,                \* the {#if Component} block: absent, intro, shown, outro
  activeElement,      \* index of document.activeElement among the tabbables, -1 if none
  destroyed,          \* the host has been destroyed
  captures,           \* history: disableScroll calls since the last enableScroll
  baseline,           \* history: body style and scroll offset when the lock was last engaged from unlocked
  pointer,            \* history: the last pointer event the block's handlers saw, and whether dismissal was on
  sessionLog,         \* history: what has happened to the current (or last) session
  fired,              \* hooks called and events dispatched by the last step
  lastOp              \* the last step taken and its inputs

vars ==
  <<Component, state, loading, scrollY, prevBodyPosition, prevBodyOverflow,
    prevBodyWidth, outerClickTarget, onOpen, onClose, onOpened, onClosed,
    isMounted, show, body, windowScrollY, dom, activeElement, destroyed,
    captures, baseline, pointer, sessionLog, fired, lastOp>>

snapshot == <<scrollY, prevBodyPosition, prevBodyOverflow, prevBodyWidth>>
\* Everything disableScroll and enableScroll touch.
scrollLock == <<body, windowScrollY, snapshot, captures, baseline>>
callbacks == <<onOpen, onClose, onOpened, onClosed>>

\* ------------------------------------------------------------ pure helpers

\* Modal.svelte 65, 71, 174, 176-198: the props' defaults, frozen at construction.
defaultState ==
  [closeOnEsc |-> TRUE, closeOnOuterClick |-> TRUE, disableFocusTrap |-> FALSE]

\* { ...state, ...options }: the overrides laid over the configuration in force.
MergeOntoState(options) ==
  [k \in ConfigKeys |-> IF k \in DOMAIN options THEN options[k] ELSE state[k]]

\* { ...defaultState, ...options }
MergeOptions(options) ==
  [k \in ConfigKeys |-> IF k \in DOMAIN options THEN options[k] ELSE defaultState[k]]

\* isFunction(f): contents are components (functions); null is not.
isFunction(f) == f \in Contents

\* const toVoid = () => {}
toVoid == [kind |-> "toVoid", hook |-> "none"]

\* The closure openModal assigns to a listener: calls callback[slot] if given,
\* then dispatches the slot's public events.
Wrapper(hook) == [kind |-> "wrapper", hook |-> hook]

\* A caller's function assigned to a listener as it is (closeModal's override).
Raw(hook) == [kind |-> "raw", hook |-> hook]

\* dispatch(...) calls in each of openModal's closures.
PublicEvents(slot) ==
  CASE slot = "onOpen" -> <<"open", "opening">>
    [] slot = "onClose" -> <<"close", "closing">>
    [] slot = "onOpened" -> <<"opened">>
    [] slot = "onClosed" -> <<"closed">>

\* What calling the listener in `slot` does, in order.
Invoke(slot, h) ==
  CASE h.kind = "toVoid" -> <<>>
    [] h.kind = "raw" -> <<h.hook>>
    [] h.kind = "wrapper" ->
         (IF h.hook # "none" THEN <<h.hook>> ELSE <<>>) \o PublicEvents(slot)

\* x || ''
OrEmpty(x) == IF x = "undefined" THEN "" ELSE x

\* JavaScript numbers that may be undefined or NaN: <<n>> is the number n,
\* <<>> is undefined / NaN.
Num(n) == <<n>>
NotANumber == <<>>

\* `-${scrollY}px`
TopOffset(y) == "-" \o ToString(y) \o "px"

\* window.scrollTo(0, y): a non-finite y scrolls to 0.
ScrollTarget(y) == IF y = NotANumber THEN 0 ELSE y[1]

\* JavaScript's a % n: the sign of the dividend, NaN for n = 0.
JsRem(a, n) ==
  IF n = 0 THEN NotANumber
  ELSE IF a >= 0 THEN Num(a % n) ELSE Num(0 - ((0 - a) % n))

\* The session history before any session: `started`, the session was begun
\* by openModal (not by changeModalContent); `open` / `close`, the public event
\* was dispatched since the session began; `loaded`, isLoading(true) was
\* called in it; `released`, the captures the lock held when
\* the session was closed; `leaving`, the onClosed listener when the block
\* last started to leave. `on` says whether the history is recorded at all: it
\* is fixed by the initial state, and is on in the specifications whose
\* properties speak about the history.
NoSessionLog(on) ==
  [on |-> on, started |-> FALSE, open |-> FALSE, close |-> FALSE, loaded |-> FALSE,
   released |-> 0, leaving |-> toVoid]

\* The next value of the session history: entry when it is recorded.
Logged(entry) == IF sessionLog.on THEN entry ELSE sessionLog

\* e is among the hooks and events in sequence f.
Fires(f, e) == \E k \in 1..Len(f) : f[k] = e

\* The history of a session that begins now.
NewSession(byOpen) ==
  [sessionLog EXCEPT !.started = byOpen, !.open = FALSE, !.close = FALSE, !.loaded = FALSE]

\* ------------------------------------------------------------- scroll lock

\* disableScroll, with `layoutScroll` the offset the window reports once the
\* body is fixed (the browser may keep it or clamp it to 0).
disableScroll(layoutScroll) ==
  /\ scrollY' = Num(windowScrollY)
  /\ prevBodyPosition' = body.position
  /\ prevBodyOverflow' = body.overflow
  /\ prevBodyWidth' = body.width
  /\ body' = [position |-> "fixed", top |-> TopOffset(windowScrollY),
              overflow |-> "hidden", width |-> "100%"]
  /\ windowScrollY' = layoutScroll
  /\ captures' = (IF captures < MaxCaptures THEN captures + 1 ELSE captures)
  /\ baseline' = (IF captures = 0 THEN [body |-> body, scroll |-> windowScrollY] ELSE baseline)

\* enableScroll
enableScroll ==
  /\ body' = [position |-> OrEmpty(prevBodyPosition), top |-> "",
              overflow |-> OrEmpty(prevBodyOverflow), width |-> OrEmpty(prevBodyWidth)]
  /\ windowScrollY' = ScrollTarget(scrollY)
  /\ captures' = 0
  /\ UNCHANGED <<snapshot, baseline>>

\* ------------------------------------------------------------- control API

\* The body of openModal (264-313).
openModalBody(NewComponent, options, callback, layoutScroll) ==
  /\ Component' = NewComponent
  /\ state' = MergeOptions(options)
  /\ disableScroll(layoutScroll)
  /\ onOpen' = Wrapper(callback.onOpen)
  /\ onClose' = Wrapper(callback.onClose)
  /\ onOpened' = Wrapper(callback.onOpened)
  /\ onClosed' = Wrapper(callback.onClosed)
  /\ sessionLog' = Logged(IF Component = "null" THEN NewSession(TRUE) ELSE sessionLog)

\* closeModal without its `if (!Component) return` guard.
closeModalBodyUnguarded(callback) ==
  /\ onClose' = (IF callback.onClose # "none" THEN Raw(callback.onClose) ELSE onClose)
  /\ onClosed' = (IF callback.onClosed # "none" THEN Raw(callback.onClosed) ELSE onClosed)
  /\ Component' = "null"
  /\ enableScroll
  /\ sessionLog' = Logged([sessionLog EXCEPT !.released = captures])

\* closeModal leaving the scroll lock to a later step.
closeModalBodyKeepsLock(callback) ==
  IF Component = "null"
  THEN UNCHANGED <<Component, onClose, onClosed, scrollLock, sessionLog>>
  ELSE /\ onClose' = (IF callback.onClose # "none" THEN Raw(callback.onClose) ELSE onClose)
       /\ onClosed' = (IF callback.onClosed # "none" THEN Raw(callback.onClosed) ELSE onClosed)
       /\ Component' = "null"
       /\ UNCHANGED scrollLock
       /\ sessionLog' = Logged([sessionLog EXCEPT !.released = captures])

\* The body of closeModal (315-321).
closeModalBody(callback) ==
  IF Component = "null"
  THEN UNCHANGED <<Component, onClose, onClosed, scrollLock, sessionLog>>
  ELSE /\ onClose' = (IF callback.onClose # "none" THEN Raw(callback.onClose) ELSE onClose)
       /\ onClosed' = (IF callback.onClosed # "none" THEN Raw(callback.onClosed) ELSE onClosed)
       /\ Component' = "null"
       /\ enableScroll
       /\ sessionLog' = Logged([sessionLog EXCEPT !.released = captures])

\* ------------------------------------------------------------ bookkeeping

NoOptions == [k \in {} |-> TRUE]
NoCloseCallbacks == [onClose |-> "none", onClosed |-> "none"]

\* The {#if Component} block is out of step with Component until the next flush.
NeedsFlush ==
  \/ Component # "null" /\ dom \in {"absent", "outro"}
  \/ Component = "null" /\ dom \in {"intro", "shown"}

\* No pointer event seen on the current block.
NoPointer == [kind |-> "none", target |-> "none", enabled |-> FALSE]

\* An element dies with its block; a reference to it equals no later target.
Detach(el) == IF el = "undefined" THEN "undefined" ELSE "detached"

\* ---------------------------------------------------------------- actions

\* openModal(NewComponent, newProps, options, callback)
openModal(NewComponent, options, callback, layoutScroll) ==
  /\ ~destroyed
  /\ openModalBody(NewComponent, options, callback, layoutScroll)
  /\ fired' = <<>>
  /\ lastOp' = [name |-> "openModal", content |-> NewComponent,
                options |-> options, callback |-> callback]
  /\ UNCHANGED <<loading, outerClickTarget, isMounted, show, dom, activeElement,
                 destroyed, pointer>>

\* changeModalContent engaging the scroll lock as openModal does.
changeModalContentLocks(NewComponent, options) ==
  /\ ~destroyed
  /\ Component' = NewComponent
  /\ state' = MergeOptions(options)
  /\ disableScroll(windowScrollY)
  /\ fired' = <<>>
  /\ lastOp' = [name |-> "changeModalContent", content |-> NewComponent, options |-> options]
  /\ sessionLog' = Logged(IF Component = "null" THEN NewSession(FALSE) ELSE sessionLog)
  /\ UNCHANGED <<loading, outerClickTarget, callbacks, isMounted, show,
                 dom, activeElement, destroyed, pointer>>

\* changeModalContent(NewComponent, newProps, options)
changeModalContent(NewComponent, options) ==
  /\ ~destroyed
  /\ Component' = NewComponent
  /\ state' = MergeOptions(options)
  /\ fired' = <<>>
  /\ lastOp' = [name |-> "changeModalContent", content |-> NewComponent, options |-> options]
  /\ sessionLog' = Logged(IF Component = "null" THEN NewSession(FALSE) ELSE sessionLog)
  /\ UNCHANGED <<loading, scrollLock, outerClickTarget, callbacks, isMounted, show,
                 dom, activeElement, destroyed, pointer>>

\* closeModal(callback)
closeModal(callback) ==
  /\ ~destroyed
  /\ closeModalBody(callback)
  /\ fired' = <<>>
  /\ lastOp' = [name |-> "closeModal", callback |-> callback]
  /\ UNCHANGED <<state, loading, outerClickTarget, onOpen, onOpened, isMounted, show,
                 dom, activeElement, destroyed, pointer>>

\* isLoading(value)
isLoading(value) ==
  /\ ~destroyed
  /\ loading' = value
  /\ sessionLog' = Logged(IF Component # "null" /\ value
                          THEN [sessionLog EXCEPT !.loaded = TRUE] ELSE sessionLog)
  /\ fired' = <<>>
  /\ lastOp' = [name |-> "isLoading", value |-> value]
  /\ UNCHANGED <<Component, state, scrollLock, outerClickTarget, callbacks, isMounted,
                 show, dom, activeElement, destroyed, pointer>>

\* The Tab index without `tabbable.length` added before the remainder.
TabIndexNoLength(n, i, shiftKey) ==
  LET index == IF i = -1 /\ shiftKey THEN 0 ELSE i
  IN  JsRem(index + (IF shiftKey THEN -1 ELSE 1), n)

\* The index handleKeydown computes for a Tab press (338-342): `n` tabbable
\* elements, `i` the position of document.activeElement among them (-1: none).
TabIndex(n, i, shiftKey) ==
  LET index == IF i = -1 /\ shiftKey THEN 0 ELSE i
  IN  JsRem(index + n + (IF shiftKey THEN -1 ELSE 1), n)

\* tabbable[index] is an element (344): otherwise .focus() is called on undefined.
IsElementIndex(index, n) == index # NotANumber /\ index[1] >= 0 /\ index[1] < n

\* The Escape branch without the closeOnEsc test.
EscapeClosesAlways(key) == Component # "null" /\ key = "Escape"

\* The condition of handleKeydown's first branch (328).
EscapeCloses(key) == state.closeOnEsc /\ Component # "null" /\ key = "Escape"

\* The condition of handleKeydown's second branch (333).
TrapsFocus(key) == Component # "null" /\ key = "Tab" /\ ~state.disableFocusTrap

\* handleKeydown(event), the window's keydown listener. `n` and `i` describe the
\* dialog window's tabbable elements and the focus when the event arrives.
handleKeydown(key, shiftKey, n, i) ==
  LET escape == EscapeCloses(key)
      trap == TrapsFocus(key)
      index == TabIndex(n, i, shiftKey)
      found == IsElementIndex(index, n)
  IN  /\ ~destroyed
      /\ ~NeedsFlush
      /\ IF escape
         THEN closeModalBody(NoCloseCallbacks)
         ELSE UNCHANGED <<Component, onClose, onClosed, scrollLock, sessionLog>>
      /\ activeElement' = (IF trap /\ found THEN index[1] ELSE i)
      /\ fired' = <<>>
      /\ lastOp' = [name |-> "keydown", key |-> key, shiftKey |-> shiftKey,
                    tabbable |-> n, focus |-> i,
                    thrown |-> (trap /\ ~found),
                    prevented |-> (escape \/ (trap /\ found))]
      /\ UNCHANGED <<state, loading, outerClickTarget, onOpen, onOpened, isMounted,
                     show, dom, destroyed, pointer>>

\* The condition of handleOuterMousedown (350-353).
RemembersTarget(target) ==
  state.closeOnOuterClick /\ target \in {"background", "wrap"}

\* The release test without the comparison to the remembered press.
IsOuterClickAnyRelease(target) ==
  state.closeOnOuterClick /\ target \in {"background", "wrap"}

\* The condition of handleOuterMouseup (358).
IsOuterClick(target) == state.closeOnOuterClick /\ target = outerClickTarget

\* handleOuterMousedown(event), on the background element.
handleOuterMousedown(target) ==
  /\ ~destroyed
  /\ ~NeedsFlush
  /\ dom # "absent"
  /\ outerClickTarget' = (IF RemembersTarget(target) THEN target ELSE outerClickTarget)
  /\ pointer' = [kind |-> "down", target |-> target, enabled |-> state.closeOnOuterClick]
  /\ fired' = <<>>
  /\ lastOp' = [name |-> "mousedown", target |-> target]
  /\ UNCHANGED <<Component, state, loading, scrollLock, callbacks, isMounted, show,
                 dom, activeElement, destroyed, sessionLog>>

\* handleOuterMouseup(event), on the background element.
handleOuterMouseup(target) ==
  LET hit == IsOuterClick(target)
  IN  /\ ~destroyed
      /\ ~NeedsFlush
      /\ dom # "absent"
      /\ IF hit
         THEN closeModalBody(NoCloseCallbacks)
         ELSE UNCHANGED <<Component, onClose, onClosed, scrollLock, sessionLog>>
      /\ fired' = <<>>
      /\ pointer' = [kind |-> "up", target |-> target, enabled |-> state.closeOnOuterClick]
      /\ lastOp' = [name |-> "mouseup", target |-> target, pressed |-> pointer,
                    prevented |-> hit]
      /\ UNCHANGED <<state, loading, outerClickTarget, onOpen, onOpened, isMounted,
                     show, dom, activeElement, destroyed>>

\* The renderer brings the {#if Component} block in step with Component: the
\* block enters (on:introstart) or starts to leave (on:outrostart).
Flush ==
  /\ ~destroyed
  /\ NeedsFlush
  /\ IF Component # "null"
     THEN /\ dom' = "intro"
          /\ fired' = Invoke("onOpen", onOpen)
          /\ sessionLog' = Logged([sessionLog EXCEPT !.open = @ \/ Fires(fired', "open")])
     ELSE /\ dom' = "outro"
          /\ fired' = Invoke("onClose", onClose)
          /\ sessionLog' = Logged([sessionLog EXCEPT !.close = @ \/ Fires(fired', "close"),
                                                     !.leaving = onClosed])
  /\ lastOp' = [name |-> "flush"]
  /\ UNCHANGED <<Component, state, loading, scrollLock, outerClickTarget, callbacks,
                 isMounted, show, activeElement, destroyed, pointer>>

\* A running transition ends: on:introend, or on:outroend and the block's removal.
TransitionEnd ==
  /\ ~destroyed
  /\ ~NeedsFlush
  /\ dom \in {"intro", "outro"}
  /\ IF dom = "intro"
     THEN /\ dom' = "shown"
          /\ fired' = Invoke("onOpened", onOpened)
          /\ UNCHANGED <<outerClickTarget, pointer>>
     ELSE /\ dom' = "absent"
          /\ fired' = Invoke("onClosed", onClosed)
          /\ outerClickTarget' = Detach(outerClickTarget)
          /\ pointer' = NoPointer
  /\ lastOp' = [name |-> "transitionEnd"]
  /\ UNCHANGED <<Component, state, loading, scrollLock, callbacks, isMounted, show,
                 activeElement, destroyed, sessionLog>>

\* The reactive block without its `if (isMounted)` guard.
ShowBlockUnmounted(mounted, value, layoutScroll) ==
  IF isFunction(value)
  THEN openModalBody(value, NoOptions, NoCallbacks, layoutScroll)
  ELSE /\ closeModalBody(NoCloseCallbacks)
       /\ UNCHANGED <<state, onOpen, onOpened>>

\* The reactive block (387-395), run when isMounted or show was assigned.
ShowBlock(mounted, value, layoutScroll) ==
  IF mounted
  THEN IF isFunction(value)
       THEN openModalBody(value, NoOptions, NoCallbacks, layoutScroll)
       ELSE /\ closeModalBody(NoCloseCallbacks)
            /\ UNCHANGED <<state, onOpen, onOpened>>
  ELSE UNCHANGED <<Component, state, callbacks, scrollLock, sessionLog>>

\* svelte.onMount(() => { isMounted = true }), then the reactive block.
Mount(layoutScroll) ==
  /\ ~destroyed
  /\ ~isMounted
  /\ isMounted' = TRUE
  /\ ShowBlock(TRUE, show, layoutScroll)
  /\ fired' = <<>>
  /\ lastOp' = [name |-> "mount"]
  /\ UNCHANGED <<loading, outerClickTarget, show, dom, activeElement, destroyed, pointer>>

\* The parent assigns the show prop, then the reactive block runs. Svelte
\* takes a function-valued prop as changed on every assignment.
SetShow(value, layoutScroll) ==
  /\ ~destroyed
  /\ value # show \/ isFunction(value)
  /\ show' = value
  /\ ShowBlock(isMounted, value, layoutScroll)
  /\ fired' = <<>>
  /\ lastOp' = [name |-> "setShow", value |-> value]
  /\ UNCHANGED <<loading, outerClickTarget, isMounted, dom, activeElement, destroyed,
                 pointer>>

\* svelte.onDestroy(() => { if (isMounted) closeModal() }); the block goes
\* with the host. Svelte mounts a component in the flush that creates it, so
\* teardown follows onMount.
Destroy ==
  /\ ~destroyed
  /\ isMounted
  /\ closeModalBody(NoCloseCallbacks)
  /\ destroyed' = TRUE
  /\ dom' = "absent"
  /\ outerClickTarget' = Detach(outerClickTarget)
  /\ pointer' = NoPointer
  /\ fired' = <<>>
  /\ lastOp' = [name |-> "destroy"]
  /\ UNCHANGED <<state, loading, onOpen, onOpened, isMounted, show, activeElement>>

\* ------------------------------------------------------ the specifications

\* The state after the <script> block ran (199-218, 253-256, 385), on a page
\* whose body style, scroll offset and show prop are drawn from the given sets.
InitWith(bodies, offsets, shows, logs) ==
  /\ Component = "null"
  /\ state = defaultState
  /\ loading = FALSE
  /\ scrollY = NotANumber
  /\ prevBodyPosition = "undefined"
  /\ prevBodyOverflow = "undefined"
  /\ prevBodyWidth = "undefined"
  /\ outerClickTarget = "undefined"
  /\ onOpen = toVoid
  /\ onClose = toVoid
  /\ onOpened = toVoid
  /\ onClosed = toVoid
  /\ isMounted = FALSE
  /\ show \in shows
  /\ body \in bodies
  /\ windowScrollY \in offsets
  /\ dom = "absent"
  /\ activeElement = -1
  /\ destroyed = FALSE
  /\ captures = 0
  /\ baseline = [body |-> body, scroll |-> windowScrollY]
  /\ pointer = NoPointer
  /\ sessionLog \in {NoSessionLog(on) : on \in logs}
  /\ fired = <<>>
  /\ lastOp = [name |-> "init"]

\* The same, without the session history.
InitOver(bodies, offsets, shows) == InitWith(bodies, offsets, shows, {FALSE})

AllBodies ==
  [position : BodyPositions, top : BodyTops, overflow : BodyOverflows, width : BodyWidths]

\* Offsets the window may report once the body is fixed.
LayoutScrolls == {0, windowScrollY}

\* Calls of the control API, with arguments drawn from the given sets.
ApiStep(options, callbackSets, closeCallbackSets) ==
  \/ \E c \in Contents, o \in options, cb \in callbackSets, ls \in LayoutScrolls :
       openModal(c, o, cb, ls)
  \/ \E c \in Contents, o \in options : changeModalContent(c, o)
  \/ \E cb \in closeCallbackSets : closeModal(cb)
  \/ \E v \in BOOLEAN : isLoading(v)

\* The renderer's steps.
RenderStep ==
  \/ Flush
  \/ TransitionEnd

\* Key presses, on a dialog window of up to maxTabbable tabbable elements.
KeyStep(keys, maxTabbable) ==
  \E key \in keys, shiftKey \in BOOLEAN, n \in 0..maxTabbable :
    \E i \in -1..(n - 1) :
      /\ key # "Tab" => (n = 0 /\ ~shiftKey)
      /\ handleKeydown(key, shiftKey, n, i)

\* Pointer presses and releases on the background's subtree.
PointerStep ==
  \/ \E t \in PointerTargets : handleOuterMousedown(t)
  \/ \E t \in PointerTargets : handleOuterMouseup(t)

\* The host's own lifecycle and its show prop.
HostStep ==
  \/ \E ls \in LayoutScrolls : Mount(ls)
  \/ \E v \in {"null"} \cup Contents, ls \in LayoutScrolls : SetShow(v, ls)
  \/ Destroy

PlainBody == [position |-> "", top |-> "", overflow |-> "", width |-> ""]

\* The controller: the control API with every kind of argument, the renderer
\* and the Escape key, on a page with no inline body style.
EscOptions == {o \in OptionSets : DOMAIN o \subseteq {"closeOnEsc"}}

Init == InitOver({PlainBody}, ScrollOffsets, {"null"})

Next ==
  \/ ApiStep(EscOptions, CallbackSets, CloseCallbackSets)
  \/ RenderStep
  \/ KeyStep({"Escape", "a"}, 0)

Spec == Init /\ [][Next]_vars

\* The scroll lock: open, swap and close on a page with any inline body style.
InitScroll == InitWith(AllBodies, ScrollOffsets, {"null"}, {TRUE})

NextScroll ==
  \/ ApiStep({NoOptions}, {NoCallbacks}, {NoCloseCallbacks})
  \/ RenderStep

SpecScroll == InitScroll /\ [][NextScroll]_vars

\* The focus trap: Tab and Shift+Tab over every focusable set and focus position.
TrapOptions == {o \in OptionSets : DOMAIN o \subseteq {"disableFocusTrap"}}

NextFocus ==
  \/ ApiStep(TrapOptions, {NoCallbacks}, {NoCloseCallbacks})
  \/ RenderStep
  \/ KeyStep(Keys, MaxTabbable)

SpecFocus == Init /\ [][NextFocus]_vars

\* The outside-click detector: presses and releases on every region.
ClickOptions == {o \in OptionSets : DOMAIN o \subseteq {"closeOnOuterClick"}}

\* The handlers never read the scroll offset: the page starts at the top.
InitPointer == InitOver({PlainBody}, {0}, {"null"})

NextPointer ==
  \/ ApiStep(ClickOptions, {NoCallbacks}, {NoCloseCallbacks})
  \/ RenderStep
  \/ PointerStep

SpecPointer == InitPointer /\ [][NextPointer]_vars

\* The host: mounting, the show prop and teardown.
InitHost == InitOver({PlainBody}, ScrollOffsets, {"null"} \cup Contents)

NextHost ==
  \/ ApiStep({NoOptions}, {NoCallbacks}, {NoCloseCallbacks})
  \/ RenderStep
  \/ HostStep

SpecHost == InitHost /\ [][NextHost]_vars

\* Sessions and their hooks: the API with and without hooks and close
\* overrides, and rendering, with the session history recorded.
InitSession == InitWith({PlainBody}, {0}, {"null"}, {TRUE})

NextSession ==
  \/ ApiStep({NoOptions}, CallbackSets, CloseCallbackSets)
  \/ RenderStep

SpecSession == InitSession /\ [][NextSession]_vars

\* Configuration: the API with every set of option overrides, and rendering.
NextConfig ==
  \/ ApiStep(OptionSets, {NoCallbacks}, {NoCloseCallbacks})
  \/ RenderStep

SpecConfig == InitPointer /\ [][NextConfig]_vars

\* ------------------------------------------------------------------ claims

\* C1: when a session that engaged the scroll lock is closed, the lock has
\* captured its snapshot exactly once (re-opening did not capture again), and
\* the close restores the body's position, overflow and width and the scroll
\* offset to their values before the session's first open.
C1_CloseRestoresFirstBaseline ==
  [][(lastOp'.name = "closeModal" /\ Component # "null" /\ captures >= 1)
       => /\ captures = 1
          /\ body'.position = baseline.body.position
          /\ body'.overflow = baseline.body.overflow
          /\ body'.width = baseline.body.width
          /\ windowScrollY' = baseline.scroll]_vars

\* C2: openModal on an unlocked body immediately followed by closeModal leaves
\* the body's position, top, overflow and width and the scroll offset exactly
\* as they were before the open.
C2_EngageDisengageRoundTrip ==
  [][(lastOp.name = "openModal" /\ captures = 1 /\ Component # "null"
      /\ lastOp'.name = "closeModal")
       => /\ body' = baseline.body
          /\ windowScrollY' = baseline.scroll]_vars

\* C3: changeModalContent with no session is a no-op: there is still no
\* session afterwards, and configuration, scroll lock and listeners are unchanged.
C3_ChangeContentClosedIsNoOp ==
  [][(lastOp'.name = "changeModalContent" /\ Component = "null")
       => /\ Component' = "null"
          /\ UNCHANGED <<state, scrollLock, callbacks>>]_vars

\* C4: closeModal with no session, with or without overrides, changes nothing:
\* body style, saved snapshot, listeners, session, configuration and the
\* rendered block stay as they are, and no hook or event is fired.
C4_CloseClosedChangesNothing ==
  [][(lastOp'.name = "closeModal" /\ Component = "null")
       => /\ UNCHANGED <<Component, state, loading, scrollLock, callbacks,
                         outerClickTarget, dom>>
          /\ NeedsFlush' = NeedsFlush
          /\ fired' = <<>>]_vars

\* C4 witness: closeModal was called with both overrides while no session
\* existed, after a session had been opened and closed; the overrides were not installed.
C4_Witness ==
  /\ lastOp.name = "closeModal"
  /\ lastOp.callback = [onClose |-> "ovr.onClose", onClosed |-> "ovr.onClosed"]
  /\ Component = "null"
  /\ onClose.kind = "wrapper"
  /\ onClosed.kind = "wrapper"
  /\ dom = "absent"
  /\ captures = 0

\* C5: isLoading with no session leaves the loading flag unchanged.
C5_LoadingClosedIsNoOp ==
  [][(lastOp'.name = "isLoading" /\ Component = "null") => loading' = loading]_vars

\* C6: a Tab or Shift+Tab press with a session active, the focus trap enabled
\* and no tabbable element in the dialog window does not throw and does not move focus.
C6_EmptyTrapIsNoOp ==
  [][(lastOp'.name = "keydown" /\ lastOp'.key = "Tab" /\ lastOp'.tabbable = 0
      /\ Component # "null" /\ ~state.disableFocusTrap)
       => /\ ~lastOp'.thrown
          /\ activeElement' = lastOp'.focus]_vars

\* C7: with a session active, the focus trap enabled and n >= 1 tabbable
\* elements, Tab moves focus from element i to (i+1) mod n and Shift+Tab to
\* (i-1) mod n; from outside the set Tab moves to element 0 and Shift+Tab to
\* element n-1; the index is within 0..n-1 and the handler does not throw.
C7_TabCycles ==
  [][(lastOp'.name = "keydown" /\ lastOp'.key = "Tab" /\ lastOp'.tabbable >= 1
      /\ Component # "null" /\ ~state.disableFocusTrap)
       => LET n == lastOp'.tabbable
              i == lastOp'.focus
          IN  /\ ~lastOp'.thrown
              /\ lastOp'.prevented
              /\ activeElement' \in 0..(n - 1)
              /\ activeElement' =
                   (IF i = -1
                    THEN (IF lastOp'.shiftKey THEN n - 1 ELSE 0)
                    ELSE IF lastOp'.shiftKey
                         THEN (IF i = 0 THEN n - 1 ELSE i - 1)
                         ELSE (IF i = n - 1 THEN 0 ELSE i + 1))]_vars

\* C7 witness: Tab with three tabbable elements and focus on the third moved
\* focus to the first.
C7_Witness ==
  /\ lastOp.name = "keydown"
  /\ lastOp.key = "Tab"
  /\ ~lastOp.shiftKey
  /\ lastOp.tabbable = 3
  /\ lastOp.focus = 2
  /\ Component # "null"
  /\ ~state.disableFocusTrap
  /\ activeElement = 0

\* C8: with outside-click dismissal enabled and a session active, a press on
\* the background or the wrapper followed by a release on a different element
\* does not close the session.
C8_DragThroughKeepsSession ==
  [][(lastOp'.name = "mouseup" /\ pointer.kind = "down"
      /\ pointer.target \in {"background", "wrap"}
      /\ lastOp'.target # pointer.target
      /\ pointer.enabled /\ state.closeOnOuterClick /\ Component # "null")
       => /\ Component' = Component
          /\ ~lastOp'.prevented
          /\ UNCHANGED <<scrollLock, callbacks>>]_vars

\* C8 witness: a press on the background was followed by a release on the
\* content, and the session is still there.
C8_Witness ==
  /\ lastOp.name = "mouseup"
  /\ lastOp.target = "content"
  /\ lastOp.pressed = [kind |-> "down", target |-> "background", enabled |-> TRUE]
  /\ state.closeOnOuterClick
  /\ Component # "null"
  /\ dom = "shown"

\* C9: a release closes the session only if the last pointer event before it
\* was a press on that same background or wrapper element.
C9_ReleaseClosesOnlyAfterMatchingPress ==
  [][(lastOp'.name = "mouseup" /\ Component # "null" /\ Component' = "null")
       => /\ pointer.kind = "down"
          /\ pointer.target = lastOp'.target
          /\ pointer.target \in {"background", "wrap"}]_vars

C11_HooksNeverReplaceEvents ==
  [][(lastOp'.name \in {"flush", "transitionEnd"} /\ onOpen.kind = "wrapper")
       => /\ (lastOp'.name = "flush" /\ dom' = "intro") => Fires(fired', "open")
          /\ (lastOp'.name = "flush" /\ dom' = "outro") => Fires(fired', "close")
          /\ (lastOp'.name = "transitionEnd" /\ dom = "intro") => Fires(fired', "opened")
          /\ (lastOp'.name = "transitionEnd" /\ dom = "outro") => Fires(fired', "closed")]_vars

\* C12: after openModal or changeModalContent with any set of overrides, the
\* configuration is the defaults with exactly the supplied keys replaced;
\* nothing of an earlier call's overrides is left.
C12_ConfigIsDefaultsPlusOverrides ==
  [][(lastOp'.name \in {"openModal", "changeModalContent"})
       => /\ DOMAIN state' = ConfigKeys
          /\ \A k \in ConfigKeys :
               state'[k] = (IF k \in DOMAIN lastOp'.options
                            THEN lastOp'.options[k]
                            ELSE defaultState[k])]_vars

\* C12 witness: changeModalContent overriding only closeOnEsc left the other
\* two keys at their defaults.
C12_Witness ==
  /\ lastOp.name = "changeModalContent"
  /\ lastOp.options = [closeOnEsc |-> FALSE]
  /\ Component # "null"
  /\ state = [closeOnEsc |-> FALSE, closeOnOuterClick |-> TRUE, disableFocusTrap |-> FALSE]

C14_TeardownReleasesLock ==
  [][(lastOp'.name = "destroy" /\ Component # "null")
       => /\ Component' = "null"
          /\ body'.position # "fixed"
          /\ body'.overflow # "hidden"]_vars

\* C15: an assignment of show before mount changes neither the session, the
\* configuration, the scroll lock nor the listeners; when mounting completes
\* and on every assignment of show after it, a renderable value opens it with
\* the default configuration and no hooks, and any other value closes the session.
C15_ShowActsOnlyWhenMounted ==
  [][(lastOp'.name \in {"mount", "setShow"})
       => IF ~isMounted'
          THEN UNCHANGED <<Component, state, loading, scrollLock, callbacks>>
          ELSE IF isFunction(show')
               THEN /\ Component' = show'
                    /\ state' = defaultState
                    /\ body'.position = "fixed"
                    /\ captures' >= 1
                    /\ onOpen' = Wrapper("none")
                    /\ onClose' = Wrapper("none")
                    /\ onOpened' = Wrapper("none")
                    /\ onClosed' = Wrapper("none")
               ELSE /\ Component' = "null"
                    /\ captures' = 0
                    /\ Component # "null" => body'.position = OrEmpty(prevBodyPosition)
                    /\ UNCHANGED <<state, callbacks>>]_vars

\* C15 witness: the host completed mounting with a renderable show and opened it.
C15_Witness ==
  /\ lastOp.name = "mount"
  /\ isMounted
  /\ show = "ContentX"
  /\ Component = "ContentX"
  /\ state = defaultState
  /\ body.position = "fixed"
  /\ captures = 1

\* C16: openModal with no session makes a session active; in a session begun
\* that way `opened` is dispatched only if `open` was dispatched for it, and
\* `closed` only if `close` was dispatched for it.
C16_EventsInOrder ==
  [][/\ (lastOp'.name = "openModal" /\ Component = "null") => Component' = lastOp'.content
     /\ (sessionLog.started /\ Fires(fired', "opened")) => sessionLog.open
     /\ (sessionLog.started /\ Fires(fired', "closed")) => sessionLog.close]_vars

\* C17: changeModalContent with a session active replaces the content and
\* the configuration and leaves the saved snapshot, the body's style, the scroll
\* offset, the loading flag and the four listeners as they are.
C17_ChangeContentKeepsTheRest ==
  [][(lastOp'.name = "changeModalContent" /\ Component # "null")
       => /\ Component' = lastOp'.content
          /\ UNCHANGED <<snapshot, body, windowScrollY, loading, callbacks>>]_vars

\* C17 witness: the content of a loading, locked session with hooks was swapped.
C17_Witness ==
  /\ lastOp.name = "changeModalContent"
  /\ lastOp.content = "ContentY"
  /\ Component = "ContentY"
  /\ loading
  /\ body.position = "fixed"
  /\ captures = 1
  /\ onClose = Wrapper("cb.onClose")

\* C18: when isLoading(true) was called in a session and the session was
\* closed, a session started by a later openModal begins with loading false.
C18_LoadingEndsWithSession ==
  [][(lastOp'.name = "openModal" /\ Component = "null" /\ sessionLog.started
      /\ sessionLog.loaded)
       => ~loading']_vars

\* C19: in every reachable state the body is locked exactly when a session exists.
C19_LockedIffSession ==
  (Component # "null") <=> (body.position = "fixed" /\ body.overflow = "hidden")

\* C20: the hook and events run when a block has left are those of the
\* onClosed listener in force when it started to leave, whatever openModal
\* or closeModal calls came in between; and openModal installs listeners that
\* hold its own hooks only, none of an earlier closeModal's overrides.
C20_ExitHooksAreTheSessionsOwn ==
  [][/\ (lastOp'.name = "transitionEnd" /\ dom = "outro")
          => fired' = Invoke("onClosed", sessionLog.leaving)
     /\ (lastOp'.name = "openModal")
          => /\ onClose' = Wrapper(lastOp'.callback.onClose)
             /\ onClosed' = Wrapper(lastOp'.callback.onClosed)]_vars

====
